---- MODULE Spec2Model ----
(***************************************************************************)
(* A model of the sp_log2 log-record rendering engine: the target filter,  *)
(* the colour-token parser, the style-directive resolver and the template  *)
(* renderer of src/src/loggers/logging.rs, with the terminal entry point   *)
(* of src/src/loggers/termlog.rs, the rotating FileLogger of               *)
(* src/src/loggers/filelog.rs and the ConfigBuilder of src/src/config.rs.  *)
(*                                                                         *)
(* Text is modelled as a sequence of one-character strings, so that        *)
(* slicing, prefix tests and digit parsing are computed as the code        *)
(* computes them.                                                          *)
(***************************************************************************)
EXTENDS Integers, Sequences, FiniteSets, TLC

(***************************************************************************)
(* Text helpers (the str methods the code calls).                          *)
(***************************************************************************)

\* s[a..b) with 0-based byte offsets, as Rust's &s[a..b]; callers guard a <= b.
Slice(s, a, b) == [k \in 1..(b - a) |-> s[a + k]]

\* str::starts_with
StartsWith(s, p) == Len(p) <= Len(s) /\ \A k \in 1..Len(p) : s[k] = p[k]

\* str::ends_with
EndsWith(s, p) ==
    Len(p) <= Len(s) /\ \A k \in 1..Len(p) : s[Len(s) - Len(p) + k] = p[k]

\* Concatenation of a sequence of texts.
RECURSIVE Cat(_)
Cat(ss) == IF ss = <<>> THEN <<>> ELSE Head(ss) \o Cat(Tail(ss))

\* The texts of length 0..n over an alphabet.
TextsUpTo(alphabet, n) == UNION {[1..m -> alphabet] : m \in 0..n}

UpperLetters ==
    <<"A","B","C","D","E","F","G","H","I","J","K","L","M",
      "N","O","P","Q","R","S","T","U","V","W","X","Y","Z">>

LowerLetters ==
    <<"a","b","c","d","e","f","g","h","i","j","k","l","m",
      "n","o","p","q","r","s","t","u","v","w","x","y","z">>

\* char::to_ascii_lowercase
LowerChar(c) ==
    IF \E k \in 1..26 : UpperLetters[k] = c
    THEN LowerLetters[CHOOSE k \in 1..26 : UpperLetters[k] = c]
    ELSE c

\* str::to_ascii_lowercase (and str::to_lowercase on ASCII text)
ToLower(s) == [k \in 1..Len(s) |-> LowerChar(s[k])]

\* 0-based offset of the first occurrence of character c at or after offset
\* from, or -1: str::find on &s[from..], re-based to the whole text.
FindFrom(s, c, from) ==
    IF \E k \in (from + 1)..Len(s) : s[k] = c
    THEN (CHOOSE k \in (from + 1)..Len(s) :
              s[k] = c /\ \A j \in (from + 1)..(k - 1) : s[j] # c) - 1
    ELSE -1

\* str::split(sep): the pieces between the separators, in order.
RECURSIVE SplitOn(_, _)
SplitOn(s, sep) ==
    LET p == FindFrom(s, sep, 0)
    IN  IF p < 0 THEN <<s>>
        ELSE <<Slice(s, 0, p)>> \o SplitOn(Slice(s, p + 1, Len(s)), sep)

\* str::trim / str::trim_end for the white space the model's texts contain.
IsSpace(c) == c \in {" ", "\n", "\r", "\t"}

RECURSIVE TrimEnd(_)
TrimEnd(s) ==
    IF s # <<>> /\ IsSpace(s[Len(s)]) THEN TrimEnd(Slice(s, 0, Len(s) - 1)) ELSE s

RECURSIVE TrimStart(_)
TrimStart(s) == IF s # <<>> /\ IsSpace(s[1]) THEN TrimStart(Tail(s)) ELSE s

Trim(s) == TrimEnd(TrimStart(s))

(***************************************************************************)
(* Integer parsing (u8::from_str_radix and str::parse::<u8>).              *)
(***************************************************************************)

DigitChars ==
    <<"0","1","2","3","4","5","6","7","8","9","a","b","c","d","e","f">>

\* The value of a lower-case digit in a radix, or -1.
DigitOf(l, radix) ==
    IF \E k \in 1..radix : DigitChars[k] = l
    THEN (CHOOSE k \in 1..radix : DigitChars[k] = l) - 1
    ELSE -1

\* char::to_digit(radix): the digit's value, or -1.
DigitVal(c, radix) == DigitOf(LowerChar(c), radix)

RECURSIVE DigitsValue(_, _)
DigitsValue(s, radix) ==
    IF s = <<>> THEN 0
    ELSE DigitsValue(Slice(s, 0, Len(s) - 1), radix) * radix + DigitVal(s[Len(s)], radix)

\* Err of the integer parsers.
NoU8 == -1

\* The overflow check of an 8-bit parse.
FitU8(v) == IF v > 255 THEN NoU8 ELSE v

\* The digits of a number after its sign: one or more, all of the radix.
ParseDigits(digits, radix) ==
    IF digits = <<>> \/ \E k \in 1..Len(digits) : DigitVal(digits[k], radix) < 0
    THEN NoU8
    ELSE FitU8(DigitsValue(digits, radix))

\* u8::from_str_radix(s, radix): an optional '+' sign, then the digits.
ParseU8(s, radix) ==
    ParseDigits(IF s # <<>> /\ s[1] = "+" THEN Tail(s) ELSE s, radix)

(***************************************************************************)
(* Colours and the colour-token parser.                                    *)
(***************************************************************************)

Rgb(r, g, b) == <<"Rgb", r, g, b>>
Ansi256(n) == <<"Ansi256", n>>
Named(name) == <<name>>

None == [kind |-> "none"]
Some(v) == [kind |-> "some", val |-> v]
Panic == [kind |-> "panic"]

ColorNames ==
    { <<"b","l","a","c","k">>, <<"b","l","u","e">>, <<"g","r","e","e","n">>,
      <<"r","e","d">>, <<"c","y","a","n">>, <<"m","a","g","e","n","t","a">>,
      <<"y","e","l","l","o","w">>, <<"w","h","i","t","e">> }

\* .map(|t: u8| (t, is_percent)) on the parse result.
WithUnit(t, is_percent) == IF t = NoU8 THEN None ELSE Some(<<t, is_percent>>)

\* parse_percent_or_255: Some(<<value, is_percent>>) or None.
parse_percent_or_255(s) ==
    IF EndsWith(s, <<"%">>)
    THEN WithUnit(ParseU8(Slice(s, 0, Len(s) - 1), 10), TRUE)
    ELSE WithUnit(ParseU8(s, 10), FALSE)

\* Color::Rgb of three parsed hex groups, each times m; `?` on a failed one.
HexColor(r, g, b, m) ==
    IF r = NoU8 \/ g = NoU8 \/ b = NoU8 THEN None ELSE Some(Rgb(r * m, g * m, b * m))

\* parse_hex: the texts of the model are ASCII, so the is_ascii guard passes.
parse_hex(s) ==
    IF Len(s) = 3
    THEN HexColor(ParseU8(Slice(s, 0, 1), 16), ParseU8(Slice(s, 1, 2), 16),
                  ParseU8(Slice(s, 2, 3), 16), 17)
    ELSE IF Len(s) = 6
    THEN HexColor(ParseU8(Slice(s, 0, 2), 16), ParseU8(Slice(s, 2, 4), 16),
                  ParseU8(Slice(s, 4, 6), 16), 1)
    ELSE None

\* RgbOfComponents with the unit comparison left out (a mutant).
RgbOfComponentsAnyUnit(r, g, b) ==
    IF r.kind = "some" /\ g.kind = "some" /\ b.kind = "some"
    THEN Some(Rgb(r.val[1], g.val[1], b.val[1]))
    ELSE None

\* The `if let` of parse_rgb: three parsed components of one unit.
RgbOfComponents(r, g, b) ==
    IF r.kind = "some" /\ g.kind = "some" /\ b.kind = "some"
       /\ r.val[2] = g.val[2] /\ g.val[2] = b.val[2]
    THEN Some(Rgb(r.val[1], g.val[1], b.val[1]))
    ELSE None

\* parse_rgb after the split.
RgbOfParams(params) ==
    IF Len(params) # 3 THEN None
    ELSE RgbOfComponents(parse_percent_or_255(Trim(params[1])),
                         parse_percent_or_255(Trim(params[2])),
                         parse_percent_or_255(Trim(params[3])))

parse_rgb(rgb) == RgbOfParams(SplitOn(rgb, ","))

\* termcolor's number form: "0x" then hex digits, else decimal digits.
ParseNumber(s) ==
    IF StartsWith(s, <<"0", "x">>) THEN ParseU8(Slice(s, 2, Len(s)), 16)
    ELSE ParseU8(s, 10)

AnsiOfNumber(n) == IF n = NoU8 THEN None ELSE Some(Ansi256(n))

RgbOfNumbers(r, g, b) ==
    IF r = NoU8 \/ g = NoU8 \/ b = NoU8 THEN None ELSE Some(Rgb(r, g, b))

\* termcolor's numeric colours: one number (Ansi256) or three (Rgb).
ColorFromCodes(codes) ==
    IF Len(codes) = 1 THEN AnsiOfNumber(ParseNumber(codes[1]))
    ELSE IF Len(codes) = 3
    THEN RgbOfNumbers(ParseNumber(codes[1]), ParseNumber(codes[2]), ParseNumber(codes[3]))
    ELSE None

\* Color::from_str as apply_style calls it: a colour name in any case, or
\* a numeric colour.
ColorFromStr(s) ==
    IF ToLower(s) \in ColorNames THEN Some(Named(ToLower(s)))
    ELSE ColorFromCodes(SplitOn(s, ","))

HashPrefix == <<"#">>
BgHashPrefix == <<"b","g","#">>
RgbPrefix == <<"r","g","b","(">>
BgRgbPrefix == <<"b","g","r","g","b","(">>
BgPrefix == <<"b","g">>

\* A parsed colour with its foreground flag.
Tagged(c, is_fg) == IF c.kind = "some" THEN Some(<<c.val, is_fg>>) ELSE None

\* The named-colour rule of apply_style (its last rule).
NamedColorRule(style) ==
    IF StartsWith(style, BgPrefix)
    THEN Tagged(ColorFromStr(Slice(style, 2, Len(style))), FALSE)
    ELSE Tagged(ColorFromStr(style), TRUE)

\* The outcome of the rgb rule, falling through to the named colours.
RgbRuleResult(style, rgb) ==
    IF rgb.kind = "some" THEN Some(<<rgb.val, StartsWith(style, RgbPrefix)>>)
    ELSE NamedColorRule(style)

\* The rgb rule of apply_style: the slice style[prefix_len..style.len() - 1]
\* panics where it starts after its end.
RgbRule(style, prefix_len) ==
    IF StartsWith(style, RgbPrefix) \/ StartsWith(style, BgRgbPrefix)
    THEN IF Len(style) - 1 < prefix_len THEN Panic
         ELSE RgbRuleResult(style, parse_rgb(Slice(style, prefix_len, Len(style) - 1)))
    ELSE NamedColorRule(style)

\* The outcome of the hex rule, falling through to the rgb rule.
HexRuleResult(style, hex) ==
    IF hex.kind = "some" THEN Some(<<hex.val, StartsWith(style, HashPrefix)>>)
    ELSE RgbRule(style, IF StartsWith(style, RgbPrefix) THEN 4 ELSE 6)

\* apply_style: Some(<<colour, is_foreground>>), None, or Panic.
apply_style(style) ==
    HexRuleResult(style,
        IF StartsWith(style, HashPrefix) \/ StartsWith(style, BgHashPrefix)
        THEN parse_hex(Slice(style, IF StartsWith(style, HashPrefix) THEN 1 ELSE 3,
                             Len(style)))
        ELSE None)

(***************************************************************************)
(* The style-directive resolver: the modifier loop of                      *)
(* parse_and_format_log_internal.                                          *)
(***************************************************************************)

NoColor == <<>>

KwBold == <<"b","o","l","d">>
KwItalic == <<"i","t","a","l","i","c">>
KwDim == <<"d","i","m">>
KwUnderline == <<"u","n","d","e","r","l","i","n","e">>
KwStrikethrough == <<"s","t","r","i","k","e","t","h","r","o","u","g","h">>
KwNb == <<"n","b">>
KwNoBrackets == <<"n","o","b","r","a","c","k","e","t","s">>
KwNo_Brackets == <<"n","o","_","b","r","a","c","k","e","t","s">>

KeyTime == <<"t","i","m","e">>
KeyThread == <<"t","h","r","e","a","d">>
KeyTarget == <<"t","a","r","g","e","t">>
KeyLevel == <<"l","e","v","e","l">>
KeyFile == <<"f","i","l","e">>
KeyModule == <<"m","o","d","u","l","e">>
KeyMessage == <<"m","e","s","s","a","g","e">>

\* The declarations before the modifier loop.
StyleStart ==
    [panicked |-> FALSE, use_bracket_level |-> TRUE,
     fg_color |-> NoColor, bg_color |-> NoColor,
     bold |-> FALSE, italic |-> FALSE, dim |-> FALSE,
     underline |-> FALSE, strikethrough |-> FALSE]

\* A colour slot that takes every new colour (a mutant of OrColor).
OverwriteColor(slot, color) == IF color # NoColor THEN color ELSE slot

\* Option::or on the colour slots.
OrColor(slot, color) == IF slot # NoColor THEN slot ELSE color

\* The default arm of the match: the token goes to apply_style.
StyleColor(d, c) ==
    IF c.kind = "panic" THEN [d EXCEPT !.panicked = TRUE]
    ELSE IF c.kind = "none" THEN d
    ELSE IF c.val[2] THEN [d EXCEPT !.fg_color = OrColor(d.fg_color, c.val[1])]
    ELSE [d EXCEPT !.bg_color = OrColor(d.bg_color, c.val[1])]

\* The match on the lower-cased token.
StyleMatch(d, key, style, low) ==
    IF low = KwBold THEN [d EXCEPT !.bold = TRUE]
    ELSE IF low = KwItalic THEN [d EXCEPT !.italic = TRUE]
    ELSE IF low = KwDim THEN [d EXCEPT !.dim = TRUE]
    ELSE IF low = KwUnderline THEN [d EXCEPT !.underline = TRUE]
    ELSE IF low = KwStrikethrough THEN [d EXCEPT !.strikethrough = TRUE]
    ELSE IF low \in {KwNb, KwNoBrackets, KwNo_Brackets}
    THEN IF key = KeyLevel THEN [d EXCEPT !.use_bracket_level = FALSE] ELSE d
    ELSE StyleColor(d, apply_style(style))

\* One turn of `for style in styles`, unless an earlier turn panicked.
StyleStep(d, key, style) ==
    IF d.panicked THEN d ELSE StyleMatch(d, key, style, ToLower(style))

\* The loop over the first n modifier tokens.
RECURSIVE StyleLoop(_, _, _)
StyleLoop(key, styles, n) ==
    IF n = 0 THEN StyleStart
    ELSE StyleStep(StyleLoop(key, styles, n - 1), key, styles[n])

\* The level colour given to every key (a mutant of LevelDefault).
LevelDefaultAnyKey(d, key, level_color) ==
    IF ~d.panicked
    THEN [d EXCEPT !.fg_color = OrColor(d.fg_color, level_color)]
    ELSE d

\* `if key == "level" { fg_color = fg_color.or(level_color) }`
LevelDefault(d, key, level_color) ==
    IF ~d.panicked /\ key = KeyLevel
    THEN [d EXCEPT !.fg_color = OrColor(d.fg_color, level_color)]
    ELSE d

\* The descriptor of a placeholder on the terminal path: the loop, then the
\* level colour as the default foreground of the `level` key.
ResolveStyle(key, styles, level_color) ==
    LevelDefault(StyleLoop(key, styles, Len(styles)), key, level_color)

\* The ColorSpec handed to set_color.
ColorSpecOf(d) ==
    [fg |-> d.fg_color, bg |-> d.bg_color, bold |-> d.bold, italic |-> d.italic,
     dimmed |-> d.dim, underline |-> d.underline, strikethrough |-> d.strikethrough]

(***************************************************************************)
(* The target filter and the field extractors.                             *)
(***************************************************************************)

\* should_skip with the ignore list never consulted (a mutant of should_skip).
should_skip_allow_only(config, record) ==
    config.filter_allow # <<>>
    /\ ~\E k \in 1..Len(config.filter_allow) :
           StartsWith(record.target, config.filter_allow[k])

should_skip(config, record) ==
    IF config.filter_allow # <<>>
       /\ ~\E k \in 1..Len(config.filter_allow) :
              StartsWith(record.target, config.filter_allow[k])
    THEN TRUE
    ELSE IF config.filter_ignore # <<>>
            /\ \E k \in 1..Len(config.filter_ignore) :
                   StartsWith(record.target, config.filter_ignore[k])
    THEN TRUE
    ELSE FALSE

\* log::Level and log::LevelFilter as their discriminants.
LevelError == 1
LevelWarn == 2
LevelInfo == 3
LevelDebug == 4
LevelTrace == 5

\* Display of log::Level.
LevelName(l) ==
    CASE l = LevelError -> <<"E","R","R","O","R">>
      [] l = LevelWarn -> <<"W","A","R","N">>
      [] l = LevelInfo -> <<"I","N","F","O">>
      [] l = LevelDebug -> <<"D","E","B","U","G">>
      [] l = LevelTrace -> <<"T","R","A","C","E">>

Spaces(n) == [k \in 1..n |-> " "]

\* format!("{:>w$}") and format!("{:<w$}"): pad with spaces up to width w.
PadLeft(s, w) == IF Len(s) >= w THEN s ELSE Spaces(w - Len(s)) \o s
PadRight(s, w) == IF Len(s) >= w THEN s ELSE s \o Spaces(w - Len(s))

\* A padding setting is <<"Left", w>>, <<"Right", w>> or <<"Off">>.
ApplyPadding(padding, s) ==
    CASE padding[1] = "Left" -> PadLeft(s, padding[2])
      [] padding[1] = "Right" -> PadRight(s, padding[2])
      [] padding[1] = "Off" -> s

LevelWidth == 5

\* write_time: the clock reading, formatted; one fixed reading in the model.
write_time(config) == <<"1","2",":","0","0">>

write_level(record, config) ==
    CASE config.level_padding = "Left" -> PadLeft(LevelName(record.level), LevelWidth)
      [] config.level_padding = "Right" -> PadRight(LevelName(record.level), LevelWidth)
      [] config.level_padding = "Off" -> LevelName(record.level)

write_target(record, config) == ApplyPadding(config.target_padding, record.target)

UnknownText == <<"<","u","n","k","n","o","w","n",">">>

write_location(record) ==
    (IF record.file.kind = "some" THEN record.file.val ELSE UnknownText)
    \o <<":">>
    \o (IF record.line.kind = "some" THEN record.line.val ELSE UnknownText)

write_module(record) ==
    IF record.module_path.kind = "some" THEN record.module_path.val ELSE UnknownText

\* The current thread: its id as printed, and its name if it has one.
write_thread_id(config, thread) == ApplyPadding(config.thread_padding, thread.id)

write_thread_name(config, thread) ==
    IF thread.name.kind = "some"
    THEN ApplyPadding(config.thread_padding, thread.name.val)
    ELSE IF config.thread_log_mode = "Both" THEN write_thread_id(config, thread)
    ELSE <<>>

write_args(record, line_ending) == record.args \o line_ending

\* The six locals of try_log / try_log_term after the format-flag tests.
Fields(config, record, thread) ==
    [time |-> IF "Time" \in config.format THEN write_time(config) ELSE <<>>,
     level |-> IF "LevelFlag" \in config.format
               THEN write_level(record, config) ELSE <<>>,
     thread |-> IF "Thread" \in config.format
                THEN IF config.thread_log_mode = "IDs"
                     THEN write_thread_id(config, thread)
                     ELSE write_thread_name(config, thread)
                ELSE <<>>,
     target |-> IF "Target" \in config.format
                THEN write_target(record, config) ELSE <<>>,
     location |-> IF "FileLocation" \in config.format
                  THEN write_location(record) ELSE <<>>,
     module |-> IF "Module" \in config.format THEN write_module(record) ELSE <<>>]

\* The extractors try_log evaluates: one per set flag, and write_args.
Extractors(config) == config.format \cup {"Args"}

(***************************************************************************)
(* State.                                                                  *)
(***************************************************************************)

VARIABLES
    token,        \* the modifier token handed to apply_style
    parsed,       \* what apply_style returned for it (Pending before the call)
    config,       \* the Config of the logger
    record,       \* the log::Record of the call
    thread,       \* the calling thread: its printed id and its optional name
    sink,         \* "writer": try_log on a generic writer; "term": TermLogger
    logger_level, \* TermLogger.level, the LevelFilter of enabled()
    pc,           \* where the log call stands: ready, scan, done, panic
    i,            \* the scan offset of parse_and_format_log_internal
    last_end,     \* its last_end
    iterations,   \* parity of the number of turns its while loop has taken
    ops,          \* the operations asked of the sink, in order
    extracted,    \* the field extractors evaluated by the call
    skip,         \* what should_skip returned to the call (Pending before)
    fail_at,      \* the sink fails the fail_at-th operation asked of it; 0: none
    result,       \* the Result the render returned (Pending before)
    calls,        \* the number of earlier log calls on the logger
    threads,      \* the threads logging on one FileLogger or TermLogger
    writable,     \* FileLogger.writable (TermLogger.streams): the Mutex, its File
    fs,           \* the file system: the files at file_path and file_path.bak
    max_size,     \* FileLogger.max_size
    builder,      \* the Config a ConfigBuilder holds (its field 0)
    built,        \* the Configs build() has returned, in order
    history       \* the calls made on the ConfigBuilder, in order

colorVars == <<token, parsed>>
callVars == <<config, record, thread, sink, logger_level>>
runVars == <<pc, i, last_end, iterations, ops, extracted, skip>>
ioVars == <<fail_at, result>>
builderVars == <<builder, built, history>>
fileVars == <<threads, writable, fs, max_size>>
loggerVars == <<calls, fileVars>>
vars == <<token, parsed, config, record, thread, sink, logger_level,
          pc, i, last_end, iterations, ops, extracted, skip,
          fail_at, result, calls, threads, writable, fs, max_size,
          builder, built, history>>

Pending == [kind |-> "pending"]

\* Result<(), Error>
Ok == [kind |-> "ok"]
Err == [kind |-> "err"]

(***************************************************************************)
(* Sink operations.                                                        *)
(***************************************************************************)

\* The stream a call writes to: TermLogger picks err for Error records.
StreamOf(s, rec) ==
    IF s = "writer" THEN "writer"
    ELSE IF rec.level = LevelError THEN "err" ELSE "out"

WriteOp(stream, text) == [op |-> "write", stream |-> stream, arg |-> text]
SetColorOp(stream, spec) == [op |-> "set_color", stream |-> stream, arg |-> spec]
ResetOp(stream) == [op |-> "reset", stream |-> stream, arg |-> <<>>]
FlushOp(stream) == [op |-> "flush", stream |-> stream, arg |-> <<>>]

\* An operation the sink answered with an error: it had no effect.
FailedOp(o) == [op |-> "error", stream |-> o.stream, arg |-> <<>>]

\* The operation that fails is among the next operations `new`.
Failing(new) == Len(ops) < fail_at /\ fail_at <= Len(ops) + Len(new)

\* A render that goes on after a failed operation (a mutant of Performed).
PerformedDespiteFailure(new) == new

\* The operations of `new` that are attempted: `?` returns at the first
\* failure, so those before the failing one and the failing one itself.
Performed(new) ==
    IF Failing(new)
    THEN SubSeq(new, 1, fail_at - Len(ops) - 1) \o <<FailedOp(new[fail_at - Len(ops)])>>
    ELSE new

\* The sink operations `new` in order, each followed by `?`: on a failure
\* the render returns the error, else it goes on at next_pc.
Emit(new, next_pc) ==
    /\ ops' = ops \o Performed(new)
    /\ pc' = IF Failing(new) THEN "done" ELSE next_pc
    /\ result' = IF Failing(new) THEN Err
                 ELSE IF next_pc = "done" THEN Ok ELSE result
    /\ UNCHANGED fail_at

\* An early `return Ok(())`.
ReturnOk ==
    /\ pc' = "done"
    /\ result' = Ok
    /\ UNCHANGED <<i, last_end, iterations, ops, extracted, fail_at>>

\* The text a sequence of operations has put on the sink.
RECURSIVE Output(_)
Output(os) ==
    IF os = <<>> THEN <<>>
    ELSE IF Head(os).op = "write" THEN Head(os).arg \o Output(Tail(os))
    ELSE Output(Tail(os))

(***************************************************************************)
(* Config::default and the inputs of the model.                            *)
(***************************************************************************)

LineFeed == <<"\n">>

DefaultConfig ==
    [format |-> {"LevelFlag", "Time", "Thread", "Target"},
     level_padding |-> "Off",
     thread_log_mode |-> "IDs",
     thread_padding |-> <<"Off">>,
     target_padding |-> <<"Off">>,
     filter_allow |-> <<>>,
     filter_ignore |-> <<>>,
     enable_colors |-> TRUE,
     max_level |-> LevelError,
     min_level |-> LevelTrace,
     formatter |-> None,
     level_color |-> <<NoColor, Named(<<"r","e","d">>), Named(<<"y","e","l","l","o","w">>),
                       Named(<<"b","l","u","e">>), Named(<<"c","y","a","n">>),
                       Named(<<"w","h","i","t","e">>)>>,
     line_ending |-> LineFeed]

\* config.level_color[record.level() as usize]
LevelColorOf(cfg, rec) == cfg.level_color[rec.level + 1]

MainThread == [id |-> <<"1">>, name |-> None]

BaseRecord ==
    [level |-> LevelInfo,
     target |-> <<"n","e","t">>,
     args |-> <<"h","i">>,
     file |-> Some(<<"m",".","r","s">>),
     line |-> Some(<<"7">>),
     module_path |-> Some(<<"n","e","t">>)]

KeyBogus == <<"b","o","g","u","s">>
NameRed == <<"r","e","d">>
Colon == <<":">>

\* The pieces templates are put together from.
Segments ==
    { <<"{">>, <<"}">>, <<"x">>, KeyLevel, KeyBogus,
      Colon \o KwNb, Colon \o KwBold, Colon \o NameRed }

MaxSegments == 4

Templates == {Cat(ss) : ss \in TextsUpTo(Segments, MaxSegments)}

(***************************************************************************)
(* The log call.                                                           *)
(***************************************************************************)

\* The fallback layout of try_log: the writes of its else branch.
FallbackWrites(stream, f, args) ==
    (IF f.time # <<>> THEN <<WriteOp(stream, f.time)>> ELSE <<>>)
    \o (IF f.level # <<>>
        THEN <<WriteOp(stream, <<" ", "[">> \o f.level \o <<"]">>)>> ELSE <<>>)
    \o (IF f.thread # <<>>
        THEN <<WriteOp(stream, <<" ", "(">> \o f.thread \o <<")">>)>> ELSE <<>>)
    \o (IF f.target # <<>>
        THEN <<WriteOp(stream, <<" ">> \o f.target \o <<":">>)>> ELSE <<>>)
    \o <<WriteOp(stream, <<" ">> \o args)>>
    \o (IF f.location # <<>>
        THEN <<WriteOp(stream, <<" ", "[">> \o f.location \o <<"]">>)>> ELSE <<>>)
    \o <<WriteOp(stream, LineFeed)>>

\* The fallback layout of try_log_term: as above, the level coloured.
FallbackWritesTerm(stream, cfg, f, args, color) ==
    (IF f.time # <<>> THEN <<WriteOp(stream, f.time)>> ELSE <<>>)
    \o (IF f.level # <<>>
        THEN (IF cfg.enable_colors
              THEN <<SetColorOp(stream, ColorSpecOf([StyleStart EXCEPT !.fg_color = color]))>>
              ELSE <<>>)
             \o <<WriteOp(stream, <<" ", "[">> \o f.level \o <<"]">>)>>
             \o (IF ~cfg.enable_colors THEN <<ResetOp(stream)>> ELSE <<>>)
        ELSE <<>>)
    \o (IF f.thread # <<>>
        THEN <<WriteOp(stream, <<" ", "(">> \o f.thread \o <<")">>)>> ELSE <<>>)
    \o (IF f.target # <<>>
        THEN <<WriteOp(stream, <<" ">> \o f.target \o <<":">>)>> ELSE <<>>)
    \o <<WriteOp(stream, <<" ">> \o args)>>
    \o (IF f.location # <<>>
        THEN <<WriteOp(stream, <<" ", "[">> \o f.location \o <<"]">>)>> ELSE <<>>)
    \o <<WriteOp(stream, LineFeed)>>

\* The `message` argument of the template renderer: try_log passes
\* write_args, try_log_term passes it with trailing white space trimmed.
MessageOf(s, cfg, rec) ==
    IF s = "term" THEN TrimEnd(write_args(rec, cfg.line_ending))
    ELSE write_args(rec, cfg.line_ending)

\* A window with its two ends exchanged (a mutant of OutsideLevelWindow).
OutsideLevelWindowSwapped(cfg, rec) ==
    rec.level < cfg.min_level \/ rec.level > cfg.max_level

\* record.level() > config.min_level || record.level() < config.max_level
OutsideLevelWindow(cfg, rec) == rec.level > cfg.min_level \/ rec.level < cfg.max_level

\* try_log after its two early returns: the extractors, then the template
\* renderer or the fallback layout.
TryLogRender ==
    /\ extracted' = Extractors(config)
    /\ IF config.formatter.kind = "some"
       THEN /\ pc' = "scan"
            /\ i' = 0
            /\ last_end' = 0
            /\ UNCHANGED <<iterations, ops, ioVars>>
       ELSE /\ Emit(FallbackWrites("writer", Fields(config, record, thread),
                         write_args(record, config.line_ending)), "done")
            /\ UNCHANGED <<i, last_end, iterations>>

\* try_log that goes on to render a record should_skip rejected (a mutant).
TryLogIgnoringSkip ==
    /\ sink = "writer"
    /\ pc = "ready"
    /\ skip' = Some(should_skip(config, record))
    /\ IF OutsideLevelWindow(config, record)
       THEN ReturnOk
       ELSE TryLogRender
    /\ UNCHANGED <<colorVars, builderVars, callVars, loggerVars>>

\* try_log, up to the call of the template renderer or through the
\* fallback layout.
TryLog ==
    /\ sink = "writer"
    /\ pc = "ready"
    /\ skip' = Some(should_skip(config, record))
    /\ IF should_skip(config, record) \/ OutsideLevelWindow(config, record)
       THEN ReturnOk
       ELSE TryLogRender
    /\ UNCHANGED <<colorVars, builderVars, callVars, loggerVars>>

\* Log::enabled of TermLogger.
Enabled(rec) == rec.level <= logger_level

\* try_log_term after its early return: the extractors, then the template
\* renderer or the fallback layout and the flush.
TryLogTermRender ==
    /\ extracted' = Extractors(config)
    /\ IF config.formatter.kind = "some"
       THEN /\ pc' = "scan"
            /\ i' = 0
            /\ last_end' = 0
            /\ UNCHANGED <<iterations, ops, ioVars>>
       ELSE /\ Emit(FallbackWritesTerm(StreamOf(sink, record), config,
                         Fields(config, record, thread),
                         MessageOf(sink, config, record),
                         LevelColorOf(config, record))
                    \o <<FlushOp(StreamOf(sink, record))>>, "done")
            /\ UNCHANGED <<i, last_end, iterations>>

\* TermLogger::try_log and try_log_term, up to the call of the template
\* renderer or through the fallback layout and the flush.
TermTryLog ==
    /\ sink = "term"
    /\ pc = "ready"
    /\ skip' = IF Enabled(record) THEN Some(should_skip(config, record)) ELSE skip
    /\ IF ~Enabled(record)
          \/ should_skip(config, record)
          \/ OutsideLevelWindow(config, record)
       THEN ReturnOk
       ELSE TryLogTermRender
    /\ UNCHANGED <<colorVars, builderVars, callVars, loggerVars>>

KnownKeys == {KeyTime, KeyThread, KeyTarget, KeyLevel, KeyFile, KeyModule, KeyMessage}

\* The `match key` of the renderer: the text written for a placeholder.
PlaceholderValue(key, placeholder, use_bracket_level, f, message) ==
    CASE key = KeyTime -> f.time
      [] key = KeyThread -> f.thread
      [] key = KeyTarget -> f.target
      [] key = KeyLevel ->
            IF use_bracket_level THEN <<"[">> \o f.level \o <<"]">> ELSE f.level
      [] key = KeyFile -> f.location
      [] key = KeyModule -> f.module
      [] key = KeyMessage -> message
      [] OTHER -> placeholder

\* A placeholder whose style is never reset (a mutant of PlaceholderOps).
PlaceholderOpsNoReset(fmt, from, at, end, d, key) ==
    (IF from < at
     THEN <<WriteOp(StreamOf(sink, record), Slice(fmt, from, at))>> ELSE <<>>)
    \o (IF d.panicked THEN <<>>
        ELSE (IF sink = "term" /\ config.enable_colors
              THEN <<SetColorOp(StreamOf(sink, record), ColorSpecOf(d))>> ELSE <<>>)
             \o <<WriteOp(StreamOf(sink, record),
                    PlaceholderValue(key, Slice(fmt, at + 1, end),
                        d.use_bracket_level, Fields(config, record, thread),
                        MessageOf(sink, config, record)))>>)

\* The operations of one placeholder at offsets at..end of the template:
\* the literal text before it, then set_color, the value and reset; a
\* panic in the modifier loop leaves only the literal text.
PlaceholderOps(fmt, from, at, end, d, key) ==
    (IF from < at
     THEN <<WriteOp(StreamOf(sink, record), Slice(fmt, from, at))>> ELSE <<>>)
    \o (IF d.panicked THEN <<>>
        ELSE (IF sink = "term" /\ config.enable_colors
              THEN <<SetColorOp(StreamOf(sink, record), ColorSpecOf(d))>> ELSE <<>>)
             \o <<WriteOp(StreamOf(sink, record),
                    PlaceholderValue(key, Slice(fmt, at + 1, end),
                        d.use_bracket_level, Fields(config, record, thread),
                        MessageOf(sink, config, record)))>>
             \o (IF sink = "term" /\ config.enable_colors
                 THEN <<ResetOp(StreamOf(sink, record))>> ELSE <<>>))

\* The body of `if let Some(end) = ...find('}')` with the descriptor d.
ScanPlaceholder(fmt, end, key, d) ==
    /\ Emit(PlaceholderOps(fmt, last_end, i, end, d, key),
            IF d.panicked THEN "panic" ELSE "scan")
    /\ IF d.panicked
       THEN UNCHANGED <<i, last_end>>
       ELSE /\ i' = end + 1
            /\ last_end' = end + 1

\* The placeholder split on ':'; modifiers are parsed on the terminal path.
ScanParts(fmt, end, parts) ==
    ScanPlaceholder(fmt, end, parts[1],
        IF sink = "term"
        THEN ResolveStyle(parts[1], Tail(parts), LevelColorOf(config, record))
        ELSE StyleStart)

\* The bytes of U+00E9 in UTF-8: a lead byte and a continuation byte.
EAcute == <<"0xC3", "0xA9">>

\* The offset of byte b is not a char boundary of the str.
IsContinuation(b) == b = "0xA9"

\* The body of the while loop at offset i; end is the offset of the next
\* '}' at or after i, or -1. `format_str[i..]` panics when i is not a char
\* boundary.
ScanTurn(fmt, end) ==
    IF IsContinuation(fmt[i + 1])
    THEN /\ pc' = "panic"
         /\ UNCHANGED <<i, last_end, ops, ioVars>>
    ELSE IF fmt[i + 1] # "{"
    THEN /\ i' = i + 1
         /\ UNCHANGED <<pc, last_end, ops, ioVars>>
    ELSE IF end < 0
    THEN UNCHANGED <<pc, i, last_end, ops, ioVars>>
    ELSE ScanParts(fmt, end, SplitOn(Slice(fmt, i + 1, end), ":"))

\* One turn of the while loop of parse_and_format_log_internal.
ScanStep ==
    /\ pc = "scan"
    /\ i < Len(config.formatter.val)
    /\ iterations' = 1 - iterations
    /\ ScanTurn(config.formatter.val, FindFrom(config.formatter.val, "}", i))
    /\ UNCHANGED <<colorVars, builderVars, callVars, loggerVars, extracted, skip>>

\* The operations after the loop: the rest of the template, and the flush
\* of try_log_term.
ExitOps(fmt, stream) ==
    (IF last_end < Len(fmt)
     THEN <<WriteOp(stream, Slice(fmt, last_end, Len(fmt)))>> ELSE <<>>)
    \o (IF sink = "term" THEN <<FlushOp(stream)>> ELSE <<>>)

\* The end of the loop: the rest of the template, and for the terminal the
\* flush that ends try_log_term.
ScanExit ==
    /\ pc = "scan"
    /\ i >= Len(config.formatter.val)
    /\ Emit(ExitOps(config.formatter.val, StreamOf(sink, record)), "done")
    /\ UNCHANGED <<colorVars, builderVars, callVars, loggerVars,
                   i, last_end, iterations, extracted, skip>>

Next == TryLog \/ TermTryLog \/ ScanStep \/ ScanExit

\* The caller logs the record once more on the same logger, after the
\* earlier call has returned.
MaxRecords == 2

NextRecord ==
    /\ pc = "done"
    /\ calls + 1 < MaxRecords
    /\ calls' = calls + 1
    /\ pc' = "ready"
    /\ i' = 0
    /\ last_end' = 0
    /\ iterations' = 0
    /\ extracted' = {}
    /\ skip' = Pending
    /\ result' = Pending
    /\ UNCHANGED <<colorVars, builderVars, callVars, ops, fail_at, fileVars>>

NextSeq == Next \/ NextRecord

\* A call about to start, with nothing done yet.
InitRun ==
    /\ pc = "ready"
    /\ i = 0
    /\ last_end = 0
    /\ iterations = 0
    /\ ops = <<>>
    /\ extracted = {}
    /\ skip = Pending
    /\ result = Pending

\* A sink that never fails, on a logger that has logged nothing yet.
SoundSink == fail_at = 0 /\ calls = 0

\* A thread that is not in a log call.
ThreadStart == [pc |-> "idle", todo |-> <<>>, new_file |-> 0, n |-> 0, seen |-> <<>>]

Threads == {1, 2}

\* FileLogger::new on a path where no file is: the empty file 1 at
\* file_path, no backup, the mutex free.
NewLogger ==
    /\ writable = [holder |-> 0, file |-> 1]
    /\ fs = [paths |-> [log |-> 1, bak |-> 0], data |-> << <<>> >>]

\* One logging thread only, and no FileLogger.
NoThreads ==
    /\ threads = [t \in Threads |-> ThreadStart]
    /\ NewLogger
    /\ max_size = None

\* ConfigBuilder::new, and nothing built yet.
NoBuilder == builder = DefaultConfig /\ built = <<>> /\ history = <<>>

NoColorCall == token = <<>> /\ parsed = Pending

\* Template rendering: every template and both sinks, colours on and off.
Init ==
    /\ NoColorCall
    /\ \E t \in {None} \cup {Some(t) : t \in Templates}, e \in BOOLEAN :
           config = [DefaultConfig EXCEPT !.formatter = t, !.enable_colors = e]
    /\ \E l \in {LevelError, LevelInfo} : record = [BaseRecord EXCEPT !.level = l]
    /\ thread = MainThread
    /\ sink \in {"writer", "term"}
    /\ logger_level = LevelTrace
    /\ InitRun
    /\ NoThreads
    /\ NoBuilder
    /\ SoundSink

Spec == Init /\ [][Next]_vars

(***************************************************************************)
(* Literal text: templates of plain characters, a two-byte character, a    *)
(* lone '}' and whole placeholders.                                        *)
(***************************************************************************)

TextSegments ==
    { <<"x">>, EAcute, <<"}">>, <<"{">> \o KeyLevel \o <<"}">>,
      <<"{">> \o KeyMessage \o <<"}">> }

MaxTextSegments == 3

InitText ==
    /\ NoColorCall
    /\ \E ss \in TextsUpTo(TextSegments, MaxTextSegments) :
           config = [DefaultConfig EXCEPT !.formatter = Some(Cat(ss))]
    /\ record = BaseRecord
    /\ thread = MainThread
    /\ sink \in {"writer", "term"}
    /\ logger_level = LevelTrace
    /\ InitRun
    /\ NoThreads
    /\ NoBuilder
    /\ SoundSink

SpecText == InitText /\ [][Next]_vars

(***************************************************************************)
(* ConfigBuilder: the filter lists, one other setter, and build().         *)
(***************************************************************************)

\* The calls made on one builder.
MaxBuilderCalls == 4

\* The filter entries passed to the builder.
FilterEntries == { <<"a">>, <<"b">> }

\* A list with the entry put in front of it (a mutant of Pushed).
PushedFront(list, entry) == <<entry>> \o list

\* `Vec::from(&*list)` followed by `list.push(entry)`
Pushed(list, entry) == Append(list, entry)

\* A builder method is called: it is noted, and self.0 becomes cfg.
BuilderCall(method, arg, cfg) ==
    /\ Len(history) < MaxBuilderCalls
    /\ history' = Append(history, [method |-> method, arg |-> arg])
    /\ builder' = cfg
    /\ UNCHANGED <<colorVars, callVars, runVars, ioVars, loggerVars>>

add_filter_allow_str ==
    \E e \in FilterEntries :
        /\ BuilderCall("add_filter_allow_str", e,
               [builder EXCEPT !.filter_allow = Pushed(@, e)])
        /\ UNCHANGED built

add_filter_allow ==
    \E e \in FilterEntries :
        /\ BuilderCall("add_filter_allow", e,
               [builder EXCEPT !.filter_allow = Pushed(@, e)])
        /\ UNCHANGED built

clear_filter_allow ==
    /\ BuilderCall("clear_filter_allow", <<>>, [builder EXCEPT !.filter_allow = <<>>])
    /\ UNCHANGED built

add_filter_ignore_str ==
    \E e \in FilterEntries :
        /\ BuilderCall("add_filter_ignore_str", e,
               [builder EXCEPT !.filter_ignore = Pushed(@, e)])
        /\ UNCHANGED built

add_filter_ignore ==
    \E e \in FilterEntries :
        /\ BuilderCall("add_filter_ignore", e,
               [builder EXCEPT !.filter_ignore = Pushed(@, e)])
        /\ UNCHANGED built

clear_filter_ignore ==
    /\ BuilderCall("clear_filter_ignore", <<>>, [builder EXCEPT !.filter_ignore = <<>>])
    /\ UNCHANGED built

set_enable_colors ==
    \E enable \in BOOLEAN :
        /\ BuilderCall("set_enable_colors", enable,
               [builder EXCEPT !.enable_colors = enable])
        /\ UNCHANGED built

\* build: `self.0.clone()` is handed to the caller.
build ==
    /\ BuilderCall("build", <<>>, builder)
    /\ built' = Append(built, builder)

NextBuilder ==
    \/ add_filter_allow_str
    \/ add_filter_allow
    \/ clear_filter_allow
    \/ add_filter_ignore_str
    \/ add_filter_ignore
    \/ clear_filter_ignore
    \/ set_enable_colors
    \/ build

InitBuilder ==
    /\ NoColorCall
    /\ config = DefaultConfig
    /\ record = BaseRecord
    /\ thread = MainThread
    /\ sink = "writer"
    /\ logger_level = LevelTrace
    /\ InitRun
    /\ NoThreads
    /\ NoBuilder
    /\ SoundSink

SpecBuilder == InitBuilder /\ [][NextBuilder]_vars

(***************************************************************************)
(* The level window: every min_level and max_level against every level.    *)
(***************************************************************************)

\* LevelFilter: Off, then the five levels.
LevelFilters == (LevelError - 1)..LevelTrace

Levels == LevelError..LevelTrace

InitLevel ==
    /\ NoColorCall
    /\ \E lo \in LevelFilters, hi \in LevelFilters,
          t \in {None, Some(<<"{">> \o KeyMessage \o <<"}">>)} :
           config = [DefaultConfig EXCEPT !.min_level = lo, !.max_level = hi,
                                          !.formatter = t]
    /\ \E l \in Levels : record = [BaseRecord EXCEPT !.level = l]
    /\ thread = MainThread
    /\ sink \in {"writer", "term"}
    /\ logger_level = LevelTrace
    /\ InitRun
    /\ NoThreads
    /\ NoBuilder
    /\ SoundSink

SpecLevel == InitLevel /\ [][Next]_vars

(***************************************************************************)
(* Consecutive records on a sink that may fail.                            *)
(***************************************************************************)

SeqSegments ==
    { <<"x">>,
      <<"{">> \o KeyLevel \o Colon \o NameRed \o <<"}">>,
      <<"{">> \o KeyTime \o Colon \o KwBold \o <<"}">>,
      <<"{">> \o KeyMessage \o <<"}">>,
      <<"{">> \o KeyBogus \o <<"}">> }

MaxSeqSegments == 2

MaxFailAt == 8

InitSeq ==
    /\ NoColorCall
    /\ \E t \in {None} \cup {Some(Cat(ss)) : ss \in TextsUpTo(SeqSegments, MaxSeqSegments)},
          e \in BOOLEAN :
           config = [DefaultConfig EXCEPT !.formatter = t, !.enable_colors = e]
    /\ record = BaseRecord
    /\ thread = MainThread
    /\ sink \in {"writer", "term"}
    /\ logger_level = LevelTrace
    /\ InitRun
    /\ NoThreads
    /\ NoBuilder
    /\ fail_at \in 0..MaxFailAt
    /\ calls = 0

SpecSeq == InitSeq /\ [][NextSeq]_vars

(***************************************************************************)
(* One record handed to a generic writer and then to the terminal, under   *)
(* every line ending and several sets of format flags.                     *)
(***************************************************************************)

\* The loggers of the program are given the record one after the other:
\* after the generic writer, the terminal.
OtherSink ==
    /\ pc = "done"
    /\ sink = "writer"
    /\ calls = 0
    /\ sink' = "term"
    /\ calls' = 1
    /\ pc' = "ready"
    /\ i' = 0
    /\ last_end' = 0
    /\ iterations' = 0
    /\ extracted' = {}
    /\ skip' = Pending
    /\ result' = Pending
    /\ UNCHANGED <<colorVars, builderVars, config, record, thread, logger_level, ops, fail_at,
                   fileVars>>

NextLine == Next \/ OtherSink

MessageTemplate == <<"{">> \o KeyMessage \o <<"}">>

LevelMessageTemplate ==
    <<"{">> \o KeyLevel \o Colon \o KwBold \o <<"}", ":", " ">> \o MessageTemplate

LineTemplates ==
    { MessageTemplate, LevelMessageTemplate,
      <<"{">> \o KeyLevel \o Colon \o KwNb \o <<"}", " ", "{">> \o KeyTarget \o <<"}">> }

\* LineEnding::LF and LineEnding::Crlf
LineEndings == { LineFeed, <<"\r", "\n">> }

FormatSets ==
    { {}, {"LevelFlag", "Target"}, {"LevelFlag", "Time", "Thread", "Target"},
      {"LevelFlag", "Time", "Thread", "Target", "FileLocation", "Module"} }

Hello == <<"h","e","l","l","o">>

InitLine ==
    /\ NoColorCall
    /\ \E t \in {None} \cup {Some(t) : t \in LineTemplates}, e \in BOOLEAN,
          le \in LineEndings, f \in FormatSets :
           config = [DefaultConfig EXCEPT !.formatter = t, !.enable_colors = e,
                                          !.line_ending = le, !.format = f]
    /\ \E l \in {LevelWarn, LevelInfo}, a \in {Hello, Hello \o <<" ">>} :
           record = [BaseRecord EXCEPT !.level = l, !.args = a]
    /\ thread = MainThread
    /\ sink = "writer"
    /\ logger_level = LevelTrace
    /\ InitRun
    /\ NoThreads
    /\ NoBuilder
    /\ SoundSink

SpecLine == InitLine /\ [][NextLine]_vars

\* Termination of render: the shorter templates, on both sinks.
MaxFairSegments == 2

InitFair ==
    /\ NoColorCall
    /\ \E ss \in TextsUpTo(Segments, MaxFairSegments), e \in BOOLEAN :
           config = [DefaultConfig EXCEPT !.formatter = Some(Cat(ss)), !.enable_colors = e]
    /\ record = BaseRecord
    /\ thread = MainThread
    /\ sink \in {"writer", "term"}
    /\ logger_level = LevelTrace
    /\ InitRun
    /\ NoThreads
    /\ NoBuilder
    /\ SoundSink

\* A thread that has started a log call keeps running it.
FairSpec == InitFair /\ [][Next]_vars /\ WF_vars(Next)

(***************************************************************************)
(* The colour parser on its own: every token of the input set is handed to *)
(* apply_style once.                                                       *)
(***************************************************************************)

\* The characters of the bodies of hex tokens: hex digits, a sign, a letter
\* that is no hex digit.
HexAlphabet == {"0", "1", "a", "f", "+", "g"}

MaxHexLen == 6

HexTokens ==
    {p \o body : p \in {HashPrefix, BgHashPrefix},
                 body \in TextsUpTo(HexAlphabet, MaxHexLen)}

\* The components of rgb tokens: bare numbers, percentages, junk.
Components ==
    { <<"0">>, <<"1","0">>, <<"2","5","5">>, <<"2","5","6">>,
      <<"0","%">>, <<"5","0","%">>, <<"1","0","0","%">>,
      <<"x">>, <<>>, <<" ","7">> }

MaxComponents == 3

\* The components joined by commas.
RECURSIVE Join(_)
Join(cs) ==
    IF cs = <<>> THEN <<>>
    ELSE IF Len(cs) = 1 THEN cs[1]
    ELSE cs[1] \o <<",">> \o Join(Tail(cs))

RgbTokens ==
    {p \o Join(cs) \o closer :
        p \in {RgbPrefix, BgRgbPrefix},
        cs \in TextsUpTo(Components, MaxComponents),
        closer \in {<<")">>, <<>>}}

NameBlue == <<"b","l","u","e">>

OtherTokens ==
    { NameRed, BgPrefix \o NameRed, <<"R","e","d">>, NameBlue, KwBold, KwNb, KeyBogus,
      <<>>, BgPrefix, <<"1","2">>, BgPrefix \o <<"1","2">>, <<"0","x","1","f">>,
      <<"1",",","2",",","3">>, <<"#","1","2">>, <<"#","1","2","3","4","5">>,
      <<"#","F","A","0">> }

Tokens == HexTokens \cup RgbTokens \cup OtherTokens

\* No log call: the state of the call when only the parser is exercised.
NoLogCall ==
    /\ config = DefaultConfig
    /\ record = BaseRecord
    /\ thread = MainThread
    /\ sink = "writer"
    /\ logger_level = LevelTrace
    /\ InitRun
    /\ NoThreads
    /\ NoBuilder
    /\ SoundSink

InitColor ==
    /\ token \in Tokens
    /\ parsed = Pending
    /\ NoLogCall

\* The call apply_style(token).
ApplyStyleCall ==
    /\ parsed = Pending
    /\ parsed' = apply_style(token)
    /\ UNCHANGED <<token, builderVars, callVars, runVars, ioVars, loggerVars>>

NextColor == ApplyStyleCall

SpecColor == InitColor /\ [][NextColor]_vars

(***************************************************************************)
(* Modifier lists: templates of one placeholder, `{key:m1:..:mn}`.         *)
(***************************************************************************)

StyleKeys == {KeyLevel, KeyTime, KeyBogus}

ModTokens ==
    { KwBold, KwNb, NameRed, NameBlue, BgPrefix \o NameBlue, BgPrefix \o NameRed,
      <<"#","0","f","0">>, KeyBogus, RgbPrefix }

MaxModifiers == 3

\* `{key:m1:..:mn}`
RECURSIVE Modifiers(_)
Modifiers(ms) == IF ms = <<>> THEN <<>> ELSE Colon \o Head(ms) \o Modifiers(Tail(ms))

StyleTemplate(key, ms) == <<"{">> \o key \o Modifiers(ms) \o <<"}">>

StyleTemplates ==
    {StyleTemplate(k, ms) : k \in StyleKeys, ms \in TextsUpTo(ModTokens, MaxModifiers)}

InitStyle ==
    /\ NoColorCall
    /\ \E t \in {None} \cup {Some(t) : t \in StyleTemplates}, e \in BOOLEAN :
           config = [DefaultConfig EXCEPT !.formatter = t, !.enable_colors = e]
    /\ \E l \in {LevelError, LevelInfo} : record = [BaseRecord EXCEPT !.level = l]
    /\ thread = MainThread
    /\ sink \in {"writer", "term"}
    /\ logger_level = LevelTrace
    /\ InitRun
    /\ NoThreads
    /\ NoBuilder
    /\ SoundSink

SpecStyle == InitStyle /\ [][Next]_vars

(***************************************************************************)
(* The target filter: every pair of filter lists against every target.     *)
(***************************************************************************)

Prefixes == { <<>>, <<"a">>, <<"a","b">>, <<"b">> }

Targets == { <<>>, <<"a">>, <<"a","b">>, <<"a","b","c">>, <<"b">>, <<"b","a">> }

MaxFilters == 2

FilterLists == TextsUpTo(Prefixes, MaxFilters)

InitFilter ==
    /\ NoColorCall
    /\ \E allow \in FilterLists, ignore \in FilterLists,
          t \in {None, Some(<<"{">> \o KeyMessage \o <<"}">>)} :
           config = [DefaultConfig EXCEPT !.filter_allow = allow,
                                          !.filter_ignore = ignore,
                                          !.formatter = t]
    /\ \E tg \in Targets, l \in {LevelError, LevelDebug} :
           record = [BaseRecord EXCEPT !.target = tg, !.level = l]
    /\ thread = MainThread
    /\ sink \in {"writer", "term"}
    /\ logger_level \in {LevelInfo, LevelTrace}
    /\ InitRun
    /\ NoThreads
    /\ NoBuilder
    /\ SoundSink

SpecFilter == InitFilter /\ [][Next]_vars

(***************************************************************************)
(* Threads logging on one FileLogger (sink "writer") or one TermLogger     *)
(* (sink "term"): the mutex, the rotation of the log file, the writes.     *)
(***************************************************************************)

\* The calls each thread makes.
MaxCalls == 2

soloVars == <<colorVars, builderVars, callVars, runVars, ioVars, calls>>

\* The record thread t logs: its message names the thread.
RecordOf(t) == [BaseRecord EXCEPT !.args = << <<"a", "b", "c">>[t] >>]

\* The sink operations of try_log (try_log_term and its flush) for the
\* record of thread t, no template being configured.
RecordOps(t) ==
    IF should_skip(config, RecordOf(t)) \/ OutsideLevelWindow(config, RecordOf(t))
    THEN <<>>
    ELSE IF sink = "term"
    THEN FallbackWritesTerm(StreamOf(sink, RecordOf(t)), config,
             Fields(config, RecordOf(t), thread),
             MessageOf(sink, config, RecordOf(t)),
             LevelColorOf(config, RecordOf(t)))
         \o <<FlushOp(StreamOf(sink, RecordOf(t)))>>
    ELSE FallbackWrites("writer", Fields(config, RecordOf(t), thread),
             write_args(RecordOf(t), config.line_ending))

\* metadata.len(): the bytes written to a file.
RECURSIVE SizeOf(_)
SizeOf(chunks) ==
    IF chunks = <<>> THEN 0
    ELSE (IF Head(chunks).o.op = "write" THEN Len(Head(chunks).o.arg) ELSE 0)
         + SizeOf(Tail(chunks))

\* What a call finds when it starts.
Snapshot == [file |-> writable.file, paths |-> fs.paths, data |-> fs.data]

\* A lock() that does not wait for the mutex (a mutant of CanLock).
CanLockAlways(t) == TRUE

\* Mutex::lock returns to thread t: no thread holds the mutex.
CanLock(t) == writable.holder = 0

\* Log::log is called: FileLogger rotates first, TermLogger goes for the
\* lock.
LogStart(t) ==
    /\ threads[t].pc = "idle"
    /\ threads[t].n < MaxCalls
    /\ Enabled(RecordOf(t))
    /\ threads' = [threads EXCEPT ![t].pc = IF sink = "term" THEN "lock" ELSE "rotate",
                                  ![t].n = @ + 1,
                                  ![t].seen = Snapshot]
    /\ UNCHANGED <<soloVars, writable, fs, max_size>>

\* rotate: `if let Some(max_size)`, then the lock.
Rotate(t) ==
    /\ threads[t].pc = "rotate"
    /\ IF max_size.kind = "none"
       THEN /\ threads' = [threads EXCEPT ![t].pc = "lock"]
            /\ UNCHANGED writable
       ELSE /\ CanLock(t)
            /\ writable' = [writable EXCEPT !.holder = t]
            /\ threads' = [threads EXCEPT ![t].pc = "check"]
    /\ UNCHANGED <<soloVars, fs, max_size>>

\* A size test that rotates at the limit already (a mutant of Oversize).
OversizeOrEqual(len, limit) == len >= limit

\* `metadata.len() > max_size`
Oversize(len, limit) == len > limit

\* rotate: the size test; the guard is dropped either way.
CheckSize(t) ==
    /\ threads[t].pc = "check"
    /\ writable' = [writable EXCEPT !.holder = 0]
    /\ threads' = [threads EXCEPT ![t].pc =
           IF Oversize(SizeOf(fs.data[writable.file]), max_size.val)
           THEN "rename" ELSE "lock"]
    /\ UNCHANGED <<soloVars, fs, max_size>>

\* rotate: rename(file_path, backup_path); an error is printed and ignored.
Rename(t) ==
    /\ threads[t].pc = "rename"
    /\ fs' = IF fs.paths.log # 0
             THEN [fs EXCEPT !.paths = [log |-> 0, bak |-> fs.paths.log]]
             ELSE fs
    /\ threads' = [threads EXCEPT ![t].pc = "open"]
    /\ UNCHANGED <<soloVars, writable, max_size>>

\* rotate: OpenOptions create + append on file_path.
Reopen(t) ==
    /\ threads[t].pc = "open"
    /\ IF fs.paths.log = 0
       THEN /\ fs' = [paths |-> [fs.paths EXCEPT !.log = Len(fs.data) + 1],
                      data |-> Append(fs.data, <<>>)]
            /\ threads' = [threads EXCEPT ![t].pc = "install",
                                          ![t].new_file = Len(fs.data) + 1]
       ELSE /\ threads' = [threads EXCEPT ![t].pc = "install",
                                          ![t].new_file = fs.paths.log]
            /\ UNCHANGED fs
    /\ UNCHANGED <<soloVars, writable, max_size>>

\* rotate: `*self.writable.lock().unwrap() = new_file`
Install(t) ==
    /\ threads[t].pc = "install"
    /\ CanLock(t)
    /\ writable' = [holder |-> 0, file |-> threads[t].new_file]
    /\ threads' = [threads EXCEPT ![t].pc = "lock"]
    /\ UNCHANGED <<soloVars, fs, max_size>>

\* log: the lock, then try_log is entered.
Lock(t) ==
    /\ threads[t].pc = "lock"
    /\ CanLock(t)
    /\ writable' = [writable EXCEPT !.holder = t]
    /\ threads' = [threads EXCEPT ![t].pc = "write", ![t].todo = RecordOps(t)]
    /\ UNCHANGED <<soloVars, fs, max_size>>

\* One sink operation of the render, on the File (the stream) in the mutex.
WriteChunk(t) ==
    /\ threads[t].pc = "write"
    /\ threads[t].todo # <<>>
    /\ fs' = [fs EXCEPT !.data[writable.file] =
                  Append(@, [by |-> t, n |-> threads[t].n, o |-> Head(threads[t].todo)])]
    /\ threads' = [threads EXCEPT ![t].todo = Tail(@)]
    /\ UNCHANGED <<soloVars, writable, max_size>>

\* The render has returned: the guard is dropped, log returns.
Unlock(t) ==
    /\ threads[t].pc = "write"
    /\ threads[t].todo = <<>>
    /\ writable' = [writable EXCEPT !.holder = 0]
    /\ threads' = [threads EXCEPT ![t].pc = "idle"]
    /\ UNCHANGED <<soloVars, fs, max_size>>

NextThreads ==
    \E t \in Threads :
        \/ LogStart(t)
        \/ Rotate(t)
        \/ CheckSize(t)
        \/ Rename(t)
        \/ Reopen(t)
        \/ Install(t)
        \/ Lock(t)
        \/ WriteChunk(t)
        \/ Unlock(t)

\* What the log file holds when the logger is made: nothing, or a line of
\* an earlier run.
OldLine ==
    [by |-> 0, n |-> 0, o |-> WriteOp("writer", <<"a","n"," ","o","l","d","e","r"," ","l","i","n","e","\n">>)]

\* max_size: none, below the size of the old line, the size of one record.
MaxSizes == {None, Some(5), Some(11)}

InitThreads ==
    /\ NoColorCall
    /\ config = [DefaultConfig EXCEPT !.format = {"LevelFlag"}]
    /\ record = BaseRecord
    /\ thread = MainThread
    /\ sink \in {"writer", "term"}
    /\ logger_level = LevelTrace
    /\ InitRun
    /\ SoundSink
    /\ NoBuilder
    /\ threads = [t \in Threads |-> ThreadStart]
    /\ writable = [holder |-> 0, file |-> 1]
    /\ max_size \in (IF sink = "term" THEN {None} ELSE MaxSizes)
    /\ \E old \in (IF sink = "term" THEN {<<>>} ELSE {<<>>, <<OldLine>>}) :
           fs = [paths |-> [log |-> 1, bak |-> 0], data |-> <<old>>]

SpecThreads == InitThreads /\ [][NextThreads]_vars

(***************************************************************************)
(* Properties of the colour parser (checked under SpecColor).              *)
(***************************************************************************)

HexDigitChars ==
    {"0","1","2","3","4","5","6","7","8","9",
     "a","b","c","d","e","f","A","B","C","D","E","F"}

IsHexBody(body) == \A k \in 1..Len(body) : body[k] \in HexDigitChars

\* The body of a hex token: what follows `#` or `bg#`.
HexBodyOf(t) == IF StartsWith(t, HashPrefix) THEN Tail(t) ELSE Slice(t, 3, Len(t))

IsHashToken(t) == StartsWith(t, HashPrefix) \/ StartsWith(t, BgHashPrefix)

\* `#rgb` written out as `#rrggbb`.
Doubled(t) ==
    LET b == HexBodyOf(t)
    IN  Slice(t, 0, Len(t) - 3) \o <<b[1], b[1], b[2], b[2], b[3], b[3]>>

\* C6: apply_style returns Some or None for every token and never panics.
C6_ApplyStyleNeverPanics == parsed # Pending => parsed.kind \in {"some", "none"}

\* C7: a hex token `#rgb` parses to the colour of `#rrggbb`, and a `#` or
\* `bg#` token whose body is not exactly 3 or exactly 6 hex digits parses
\* to None.
C7_HexTokens ==
    (parsed # Pending /\ IsHashToken(token)) =>
        /\ (Len(HexBodyOf(token)) = 3 /\ IsHexBody(HexBodyOf(token)))
               => (parsed.kind = "some" /\ parsed = apply_style(Doubled(token)))
        /\ ~(Len(HexBodyOf(token)) \in {3, 6} /\ IsHexBody(HexBodyOf(token)))
               => parsed = None

\* The percentages 0..100 that the component texts of the model spell.
PercentOf(c) ==
    CASE c = <<"0","%">> -> 0
      [] c = <<"5","0","%">> -> 50
      [] c = <<"1","0","0","%">> -> 100

PercentTexts == { <<"0","%">>, <<"5","0","%">>, <<"1","0","0","%">> }

\* A component value c is N% of 255, rounded either way.
ScaledFrom(c, n) == 100 * c - 255 * n < 100 /\ 255 * n - 100 * c < 100

RgbToken(p, a, b, c) == p \o a \o <<",">> \o b \o <<",">> \o c \o <<")">>

\* C8: in an rgb token each percentage N% (0 <= N <= 100) is scaled
\* linearly onto 0..255; rgb(100%,0%,0%) is the colour of rgb(255,0,0).
C8_PercentScaled ==
    parsed # Pending =>
        \A p \in {RgbPrefix, BgRgbPrefix}, a \in PercentTexts, b \in PercentTexts,
           c \in PercentTexts :
            token = RgbToken(p, a, b, c) =>
                /\ parsed.kind = "some"
                /\ ScaledFrom(parsed.val[1][2], PercentOf(a))
                /\ ScaledFrom(parsed.val[1][3], PercentOf(b))
                /\ ScaledFrom(parsed.val[1][4], PercentOf(c))

\* The three components of an rgb token `rgb(a,b,c)` / `bgrgb(a,b,c)`, or
\* <<>> when the token has another shape.
RgbComponentsOf(t) ==
    LET from == IF StartsWith(t, RgbPrefix) THEN 4 ELSE 6
        parts == SplitOn(Slice(t, from, Len(t) - 1), ",")
    IN  IF (StartsWith(t, RgbPrefix) \/ StartsWith(t, BgRgbPrefix))
           /\ EndsWith(t, <<")">>) /\ Len(parts) = 3
        THEN parts ELSE <<>>

IsPercentText(c) == EndsWith(Trim(c), <<"%">>)

MixedUnits(cs) ==
    /\ \E k \in 1..Len(cs) : IsPercentText(cs[k])
    /\ \E k \in 1..Len(cs) : ~IsPercentText(cs[k])

\* C9: an rgb token whose three components mix bare integers and
\* percentages parses to None; one that parses to a colour has all three
\* components in one unit.
C9_MixedUnitsRejected ==
    (parsed # Pending /\ MixedUnits(RgbComponentsOf(token))) => parsed = None

\* rgb(50%,10,0) was handed to apply_style and gave None.
C9_Witness ==
    /\ token = RgbToken(RgbPrefix, <<"5","0","%">>, <<"1","0">>, <<"0">>)
    /\ parsed = None

(***************************************************************************)
(* Properties of the template renderer (checked under Spec and FairSpec).  *)
(***************************************************************************)

\* The template of the call; <<>> when none is configured.
TemplateOf(cfg) == IF cfg.formatter.kind = "some" THEN cfg.formatter.val ELSE <<>>

\* 0-based offset of the first '{' of the template that no '}' follows, or
\* -1 when every '{' has a '}' after it.
FirstUnterminated(fmt) ==
    IF \E k \in 1..Len(fmt) : fmt[k] = "{" /\ FindFrom(fmt, "}", k) < 0
    THEN (CHOOSE k \in 1..Len(fmt) :
              /\ fmt[k] = "{" /\ FindFrom(fmt, "}", k) < 0
              /\ \A j \in 1..(k - 1) : ~(fmt[j] = "{" /\ FindFrom(fmt, "}", j) < 0)) - 1
    ELSE -1

\* The template text from that '{' to the end; <<>> when there is none.
UnterminatedTail(fmt) ==
    IF FirstUnterminated(fmt) >= 0
    THEN Slice(fmt, FirstUnterminated(fmt), Len(fmt))
    ELSE <<>>

\* C1: on a template with a '{' that no '}' follows, render terminates and
\* the output ends with the template text from that '{' on, unchanged.
C1_UnterminatedVerbatim ==
    FirstUnterminated(TemplateOf(config)) >= 0 =>
        <>(pc = "done" /\ EndsWith(Output(ops), UnterminatedTail(TemplateOf(config))))

\* The scan stands at a '{' that has a '}' after it: the next turn of the
\* loop renders a placeholder.
AtPlaceholder ==
    /\ pc = "scan"
    /\ i < Len(TemplateOf(config))
    /\ TemplateOf(config)[i + 1] = "{"
    /\ FindFrom(TemplateOf(config), "}", i) >= 0

\* The placeholder the scan stands at, split on ':'.
PartsHere ==
    SplitOn(Slice(TemplateOf(config), i + 1, FindFrom(TemplateOf(config), "}", i)), ":")

\* The text of the last write among the operations.
RECURSIVE LastWrite(_)
LastWrite(os) ==
    IF os = <<>> THEN <<>>
    ELSE IF os[Len(os)].op = "write" THEN os[Len(os)].arg
    ELSE LastWrite(SubSeq(os, 1, Len(os) - 1))

\* C2: a placeholder whose key is none of the seven known keys is written
\* as its literal text, delimiters included, on every sink.
C2_UnknownKeyLiteral ==
    [][(AtPlaceholder /\ PartsHere[1] \notin KnownKeys) =>
          LastWrite(ops') =
              Slice(TemplateOf(config), i, FindFrom(TemplateOf(config), "}", i) + 1)]_vars

NbKeywords == {KwNb, KwNoBrackets, KwNo_Brackets}

\* Some modifier of the placeholder the scan stands at suppresses brackets.
NbHere == \E k \in 2..Len(PartsHere) : ToLower(PartsHere[k]) \in NbKeywords

\* C3: on every sink, `level` with an nb / nobrackets / no_brackets
\* modifier writes the level text bare, `level` without one writes it in
\* brackets, and the modifiers change nothing for any other key.
C3_BracketSuppression ==
    [][AtPlaceholder =>
          /\ PartsHere[1] = KeyLevel =>
                LastWrite(ops') =
                    IF NbHere THEN Fields(config, record, thread).level
                    ELSE <<"[">> \o Fields(config, record, thread).level \o <<"]">>
          /\ PartsHere[1] # KeyLevel =>
                LastWrite(ops') =
                    PlaceholderValue(PartsHere[1],
                        Slice(TemplateOf(config), i + 1,
                              FindFrom(TemplateOf(config), "}", i)),
                        TRUE, Fields(config, record, thread),
                        MessageOf(sink, config, record))]_vars

(***************************************************************************)
(* Properties of the target filter (checked under SpecFilter).             *)
(***************************************************************************)

\* The target starts with some entry of the list.
MatchesAny(target, list) == \E k \in 1..Len(list) : StartsWith(target, list[k])

\* C4: should_skip returns true exactly when filter_allow is non-empty and
\* the target starts with none of its entries, or filter_ignore is
\* non-empty and the target starts with one of its entries.
C4_ShouldSkipExact ==
    skip # Pending =>
        skip.val = (\/ (config.filter_allow # <<>>
                        /\ ~MatchesAny(record.target, config.filter_allow))
                    \/ (config.filter_ignore # <<>>
                        /\ MatchesAny(record.target, config.filter_ignore)))

\* should_skip returned true for a target that matches an allow prefix and
\* an ignore prefix.
C4_Witness ==
    /\ skip = Some(TRUE)
    /\ MatchesAny(record.target, config.filter_allow)
    /\ MatchesAny(record.target, config.filter_ignore)

\* C5: when should_skip returns true the call has returned with nothing
\* done on the sink and no field extractor evaluated.
C5_SkippedTouchesNothing ==
    skip = Some(TRUE) => (pc = "done" /\ ops = <<>> /\ extracted = {})

\* A skipped record on the generic writer, one that the level window and
\* the logger's level would have let through.
C5_Witness ==
    /\ skip = Some(TRUE)
    /\ pc = "done"
    /\ sink = "writer"
    /\ ~OutsideLevelWindow(config, record)
    /\ config.formatter.kind = "some"

(***************************************************************************)
(* Properties of the style resolver (checked under SpecStyle).             *)
(***************************************************************************)

\* The modifier tokens of a one-placeholder template `{key:m1:..:mn}`.
ModifiersOf(fmt) == Tail(SplitOn(Slice(fmt, 1, Len(fmt) - 1), ":"))

IsFgToken(t) == apply_style(t).kind = "some" /\ apply_style(t).val[2]
IsBgToken(t) == apply_style(t).kind = "some" /\ ~apply_style(t).val[2]

\* The colour of the first token of the list that parses as a foreground
\* (resp. background) colour.
FirstFg(ms) ==
    apply_style(ms[CHOOSE k \in 1..Len(ms) :
                       IsFgToken(ms[k]) /\ \A j \in 1..(k - 1) : ~IsFgToken(ms[j])]).val[1]

FirstBg(ms) ==
    apply_style(ms[CHOOSE k \in 1..Len(ms) :
                       IsBgToken(ms[k]) /\ \A j \in 1..(k - 1) : ~IsBgToken(ms[j])]).val[1]

\* C10: the resolved foreground is the colour of the first token that
\* parses as a foreground colour, the resolved background that of the
\* first token that parses as a background colour, each whatever the other
\* tokens of the list are.
C10_FirstColorWins ==
    \A k \in 1..Len(ops) :
        ops[k].op = "set_color" =>
            /\ (\E m \in 1..Len(ModifiersOf(TemplateOf(config))) :
                    IsFgToken(ModifiersOf(TemplateOf(config))[m]))
                   => ops[k].arg.fg = FirstFg(ModifiersOf(TemplateOf(config)))
            /\ IF \E m \in 1..Len(ModifiersOf(TemplateOf(config))) :
                      IsBgToken(ModifiersOf(TemplateOf(config))[m])
               THEN ops[k].arg.bg = FirstBg(ModifiersOf(TemplateOf(config)))
               ELSE ops[k].arg.bg = NoColor

\* `{time:bgblue:red:blue}` rendered: red in front of blue, on blue.
C10_Witness ==
    /\ pc = "done"
    /\ TemplateOf(config) =
           StyleTemplate(KeyTime, <<BgPrefix \o NameBlue, NameRed, NameBlue>>)
    /\ \E k \in 1..Len(ops) :
           /\ ops[k].op = "set_color"
           /\ ops[k].arg.fg = Named(NameRed)
           /\ ops[k].arg.bg = Named(NameBlue)

\* The key of a one-placeholder template `{key:m1:..:mn}`.
KeyOf(fmt) == Head(SplitOn(Slice(fmt, 1, Len(fmt) - 1), ":"))

\* Some modifier of the one-placeholder template parses as a foreground colour.
HasFgToken(fmt) == \E m \in 1..Len(ModifiersOf(fmt)) : IsFgToken(ModifiersOf(fmt)[m])

\* C11: on the terminal, a `level` placeholder without a foreground token
\* is set to level_color[record.level], a foreground token overrides that
\* default, and no other key ever receives the level colour.
C11_LevelColorDefault ==
    (sink = "term" /\ config.formatter.kind = "some") =>
        \A k \in 1..Len(ops) :
            ops[k].op = "set_color" =>
                ops[k].arg.fg =
                    IF HasFgToken(TemplateOf(config))
                    THEN FirstFg(ModifiersOf(TemplateOf(config)))
                    ELSE IF KeyOf(TemplateOf(config)) = KeyLevel
                    THEN LevelColorOf(config, record)
                    ELSE NoColor

\* `{level:bold:bgblue}` at level Info rendered: the level colour in front.
C11_Witness ==
    /\ pc = "done"
    /\ sink = "term"
    /\ record.level = LevelInfo
    /\ TemplateOf(config) = StyleTemplate(KeyLevel, <<KwBold, BgPrefix \o NameBlue>>)
    /\ \E k \in 1..Len(ops) :
           /\ ops[k].op = "set_color"
           /\ ops[k].arg.fg = LevelColorOf(config, record)
           /\ ops[k].arg.bg = Named(NameBlue)

(***************************************************************************)
(* Properties of consecutive records and of failing sinks (SpecSeq).       *)
(***************************************************************************)

\* A style is in effect when operation k is asked of the sink: some earlier
\* set_color has no reset after it.
StyleInEffect(os, k) ==
    \E j \in 1..(k - 1) :
        /\ os[j].op = "set_color"
        /\ \A m \in (j + 1)..(k - 1) : os[m].op # "reset"

\* Template rendering with colours on the colour-capable sink.
ColouredTemplate == sink = "term" /\ config.enable_colors /\ config.formatter.kind = "some"

C16_FallbackColourReset ==
    (sink = "term" /\ config.enable_colors /\ config.formatter.kind = "none"
     /\ fail_at = 0) =>
        \A k \in 1..Len(ops) :
            (ops[k].op = "write" /\ StyleInEffect(ops, k)) => ops[k - 1].op = "set_color"

\* IsPrefix: the operations os are the first operations of ps.
IsPrefixOf(os, ps) == Len(os) <= Len(ps) /\ SubSeq(ps, 1, Len(os)) = os

\* C17: the step in which the sink fails asks nothing of the sink after
\* the failing operation, returns the error, and leaves what was done
\* before in place; a render that has returned asks nothing more.
C17_SinkErrorAborts ==
    [][/\ IsPrefixOf(ops, ops')
       /\ (pc = "done" /\ pc' = "done") => ops' = ops
       /\ (Len(ops) < fail_at /\ fail_at <= Len(ops')) =>
              /\ Len(ops') = fail_at
              /\ ops'[fail_at].op = "error"
              /\ pc' = "done"
              /\ result' = Err]_vars

\* The terminal's third operation failed: two were done, the error was
\* returned.
C17_Witness ==
    /\ sink = "term"
    /\ fail_at = 3
    /\ Len(ops) = 3
    /\ ops[3].op = "error"
    /\ ops[2].op \in {"write", "set_color"}
    /\ pc = "done"
    /\ result = Err

(***************************************************************************)
(* Properties of the rendered line (checked under SpecLine).               *)
(***************************************************************************)

\* The text the operations have put on one stream.
OutputOn(stream) == Output(SelectSeq(ops, LAMBDA o : o.stream = stream))

\* The call on the current sink has returned.
Returned == pc = "done" /\ result = Ok

\* C13: on every sink and under every line ending, the template
\* `{message}` renders the message text followed by the configured line
\* ending; and level Warn, `{level:bold}: {message}`, colours off, message
\* `hello`, the default configuration otherwise, render `[WARN]: hello\n`.
C13_MessageRoundTrip ==
    Returned =>
        /\ TemplateOf(config) = MessageTemplate =>
              OutputOn(StreamOf(sink, record)) = record.args \o config.line_ending
        /\ (/\ TemplateOf(config) = LevelMessageTemplate
            /\ ~config.enable_colors
            /\ config.format = DefaultConfig.format
            /\ config.line_ending = LineFeed
            /\ record.level = LevelWarn
            /\ record.args = Hello) =>
              OutputOn(StreamOf(sink, record)) =
                  <<"[","W","A","R","N","]",":"," ">> \o Hello \o LineFeed

\* C14: once both loggers have rendered the record, the text on the
\* generic writer equals the text on the terminal's stream.
C14_WriterEqualsTerminal ==
    (Returned /\ sink = "term" /\ calls = 1) =>
        OutputOn("writer") = OutputOn(StreamOf("term", record))

\* The line of the fallback layout: the non-empty ones of time, [level],
\* (thread), target:, message, [location], each after the first position
\* behind a space, then the line ending.
FallbackLine(f, message, line_ending) ==
    f.time
    \o (IF f.level # <<>> THEN <<" ", "[">> \o f.level \o <<"]">> ELSE <<>>)
    \o (IF f.thread # <<>> THEN <<" ", "(">> \o f.thread \o <<")">> ELSE <<>>)
    \o (IF f.target # <<>> THEN <<" ">> \o f.target \o <<":">> ELSE <<>>)
    \o <<" ">> \o message
    \o (IF f.location # <<>> THEN <<" ", "[">> \o f.location \o <<"]">> ELSE <<>>)
    \o line_ending

\* C15: with no template, the line is the fallback layout of the non-empty
\* fields with the configured line ending once, at its very end.
C15_FallbackLayout ==
    (Returned /\ config.formatter.kind = "none") =>
        OutputOn(StreamOf(sink, record)) =
            FallbackLine(Fields(config, record, thread), record.args, config.line_ending)

\* C20: a log call with a valid time pattern returns to its caller: it
\* never panics.
C20_LogCallNeverPanics == pc # "panic"

(***************************************************************************)
(* Properties of the threads and of the log file (SpecThreads).            *)
(***************************************************************************)

\* The operations of one record lie next to each other in the file.
Contiguous(chunks) ==
    \A a, b, c \in 1..Len(chunks) :
        (a < b /\ b < c /\ chunks[a].by = chunks[c].by /\ chunks[a].n = chunks[c].n) =>
            (chunks[b].by = chunks[a].by /\ chunks[b].n = chunks[a].n)

\* C18: every sink operation of a record, the flush of the terminal
\* included, is done while its thread holds the logger's mutex, and the
\* operations of two records are never interleaved in a file or stream.
C18_WritesUnderMutex ==
    [][/\ \A t \in Threads :
              (threads[t].pc = "write" /\ threads'[t].todo # threads[t].todo) =>
                  writable.holder = t
       /\ \A f \in 1..Len(fs'.data) : Contiguous(fs'.data[f])]_vars

\* Thread 1 holds the mutex in the middle of its record while thread 2,
\* which has logged one record already, waits for the lock.
C18_Witness ==
    /\ writable.holder = 1
    /\ threads[1].pc = "write"
    /\ Len(threads[1].todo) = 1
    /\ threads[2].pc = "lock"
    /\ threads[2].n = 2

\* Thread t is the only one that has logged.
Solo(t) == \A u \in Threads \ {t} : threads[u] = ThreadStart

\* The active file was larger than max_size when the call of t started.
WasOver(t) ==
    /\ max_size.kind = "some"
    /\ SizeOf(threads[t].seen.data[threads[t].seen.file]) > max_size.val

\* The operations of the record of t that have been done so far.
DoneOf(t) ==
    [k \in 1..(Len(RecordOps(t)) - Len(threads[t].todo)) |->
        [by |-> t, n |-> threads[t].n, o |-> RecordOps(t)[k]]]

ExpectedValue(placeholder, parts, f) ==
    PlaceholderValue(parts[1], placeholder,
        (IF sink = "term"
         THEN ResolveStyle(parts[1], Tail(parts), LevelColorOf(config, record))
         ELSE StyleStart).use_bracket_level,
        f, MessageOf(sink, config, record))

\* The text a template stands for when the fields are f: a placeholder,
\* from a '{' to the next '}', gives the value of its key; every other
\* character gives itself.
RECURSIVE ExpectedWith(_, _)
ExpectedWith(fmt, f) ==
    IF fmt = <<>> THEN <<>>
    ELSE IF Head(fmt) = "{" /\ FindFrom(fmt, "}", 0) >= 0
    THEN ExpectedValue(Slice(fmt, 1, FindFrom(fmt, "}", 0)),
             SplitOn(Slice(fmt, 1, FindFrom(fmt, "}", 0)), ":"), f)
         \o ExpectedWith(Slice(fmt, FindFrom(fmt, "}", 0) + 1, Len(fmt)), f)
    ELSE <<Head(fmt)>> \o ExpectedWith(Tail(fmt), f)

ExpectedText(fmt) == ExpectedWith(fmt, Fields(config, record, thread))

\* C21: the render of a template returns, and what it has written is the
\* template with each placeholder replaced by its value: every character
\* outside a placeholder once, in order and unchanged, also when the
\* template holds a multi-byte character or a '}' that no '{' precedes.
C21_LiteralTextVerbatim ==
    /\ pc # "panic"
    /\ Returned => Output(ops) = ExpectedText(TemplateOf(config))

(***************************************************************************)
(* Properties of the ConfigBuilder (SpecBuilder).                          *)
(***************************************************************************)

\* The entries the calls of h named in adds have passed since the last
\* call named clear, oldest first.
RECURSIVE SinceClear(_, _, _)
SinceClear(h, adds, clear) ==
    IF h = <<>> \/ h[Len(h)].method = clear THEN <<>>
    ELSE SinceClear(SubSeq(h, 1, Len(h) - 1), adds, clear)
         \o (IF h[Len(h)].method \in adds THEN <<h[Len(h)].arg>> ELSE <<>>)

\* C22: after every builder call each filter list holds the entries added
\* since its last clear, in the order of the calls and with duplicates; a
\* Config that build() returned is the builder's configuration of that
\* moment and no later call changes it.
C22_BuilderListsAndSnapshot ==
    [][/\ builder'.filter_allow =
              SinceClear(history', {"add_filter_allow", "add_filter_allow_str"},
                         "clear_filter_allow")
       /\ builder'.filter_ignore =
              SinceClear(history', {"add_filter_ignore", "add_filter_ignore_str"},
                         "clear_filter_ignore")
       /\ \A k \in 1..Len(built) : built'[k] = built[k]
       /\ Len(built') > Len(built) => built'[Len(built')] = builder]_vars

\* A Config was built with the same entry twice in its allow list, and the
\* builder's list has been cleared since.
C22_Witness ==
    /\ Len(built) = 1
    /\ built[1].filter_allow = << <<"a">>, <<"a">> >>
    /\ builder.filter_allow = <<>>
    /\ history[4].method = "clear_filter_allow"

(***************************************************************************)
(* Format flags under a template (SpecLine).                               *)
(***************************************************************************)

AllFlags == {"Time", "LevelFlag", "Thread", "Target", "FileLocation", "Module"}

\* C23: with a template, what a returned render has written on its sink is
\* the template with each placeholder replaced by the value of its field,
\* computed from the record and the configuration as if every format flag
\* were set, whatever flags the configuration has.
C23_FlagsDoNotRestrictTemplate ==
    (Returned /\ config.formatter.kind = "some") =>
        OutputOn(StreamOf(sink, record)) =
            ExpectedWith(TemplateOf(config),
                Fields([config EXCEPT !.format = AllFlags], record, thread))

(***************************************************************************)
(* Properties of the level window (SpecLevel).                             *)
(***************************************************************************)

\* max_level <= record.level <= min_level, with Error < Warn < Info <
\* Debug < Trace.
InWindow == config.max_level <= record.level /\ record.level <= config.min_level

\* A record the window lets through has been rendered when the call has
\* returned, one it does not let through is never written and the call
\* returns Ok; the default window lets every level through.
WindowDecides ==
    /\ ~InWindow => ops = <<>>
    /\ pc = "done" => result = Ok /\ (InWindow => ops # <<>>)
    /\ (config.min_level = DefaultConfig.min_level
        /\ config.max_level = DefaultConfig.max_level) => InWindow

\* C24 as stated: the window decides, and a record whose level is below
\* min_level in the ordering Error < .. < Trace is ignored.
C24_LevelWindowBelowMinIgnored ==
    /\ WindowDecides
    /\ record.level < config.min_level => ops = <<>>

\* C24: the window decides, and a record whose level is above min_level in
\* the ordering Error < .. < Trace (a less severe one) is ignored.
C24_LevelWindow ==
    /\ WindowDecides
    /\ record.level > config.min_level => ops = <<>>

\* A Debug record has been ignored under min_level Info, and nothing was
\* written.
C24_Witness ==
    /\ pc = "done"
    /\ result = Ok
    /\ record.level = LevelDebug
    /\ config.min_level = LevelInfo
    /\ config.max_level = LevelError
    /\ ops = <<>>

(***************************************************************************)
(* Rotation under concurrency (SpecThreads).                               *)
(***************************************************************************)

\* No log call is in progress.
AllIdle == \A t \in Threads : threads[t].pc = "idle"

\* What the log file held when the logger was made.
OldChunks(chunks) == SelectSeq(chunks, LAMBDA c : c.by = 0)

\* The file was over max_size when the logger was made, no thread has
\* logged more than once, and one record alone does not bring a file over
\* max_size: whenever a call tests the size of the fresh file, at most the
\* other thread's record is in it, so only the old file crosses the limit.
SingleCrossing ==
    /\ sink = "writer"
    /\ max_size.kind = "some"
    /\ SizeOf(OldChunks(fs.data[1])) > max_size.val
    /\ \A t \in Threads :
           /\ threads[t].n <= 1
           /\ SizeOf([k \in 1..Len(RecordOps(t)) |-> [o |-> RecordOps(t)[k]]])
                  <= max_size.val
    /\ \E t \in Threads : threads[t].n = 1

\* C25: when the calls of the threads have returned after a single
\* crossing of the limit, one rotation has happened (one file was made),
\* and what was written before it is in the file at file_path.bak.
C25_OneRotationNothingLost ==
    (SingleCrossing /\ AllIdle) =>
        /\ Len(fs.data) = 2
        /\ fs.paths.bak # 0
        /\ OldChunks(fs.data[fs.paths.bak]) = <<OldLine>>

\* C26: whenever no log call is in progress on the FileLogger, the File in
\* its mutex is the file that file_path names, not one that was renamed to
\* file_path.bak.
C26_ActiveHandleIsFilePath ==
    (sink = "writer" /\ AllIdle) =>
        /\ writable.file = fs.paths.log
        /\ writable.file # fs.paths.bak

====
